---- MODULE Spec2Model ----
(***************************************************************************)
(* The load package executor of dlt (dlt/load/load.py): one load package   *)
(* is driven through schema sync, retrieve-or-spool, the poll loop and     *)
(* the archive step.  Job files live in four folders of LoadStorage; the   *)
(* destination's answers (job states, spool and restore outcomes, the      *)
(* advertised state of a merge followup, the listing order of a folder)    *)
(* are nondeterministic inputs.                                            *)
(***************************************************************************)
EXTENDS Integers, Sequences, FiniteSets, TLC

\* ------------------------------------------------------------------ bounds
MaxFiles == 2
MaxWorkers == 2
MaxRetry == 1
MaxCrashes == 1
MaxMerge == 3

\* ---------------------------------------------------------------- packages
\* The package whose job files the model follows, the load ids other
\* packages of the storage may have, and "no package picked".
ThisLoadId == 2

OtherLoadIds == {1, 3}

NoLoad == 0

\* ------------------------------------------------------------------ schema
\* The frozen package schema: a merge chain orders -> orders__items and an
\* append table items.  "ghost" names a table that is not in the schema.
NoTable == "none"

SchemaTables == <<"orders", "orders__items", "items">>

TableNames == {SchemaTables[i] : i \in 1..Len(SchemaTables)}

FileTables == <<"orders", "orders__items", "items", "ghost">>

Parent(t) == IF t = "orders__items" THEN "orders" ELSE NoTable

RawWriteDisposition(t) ==
    CASE t = "orders" -> "merge"
      [] t = "items" -> "append"
      [] OTHER -> "absent"

RECURSIVE get_top_level_table(_)
get_top_level_table(t) ==
    IF Parent(t) = NoTable THEN t ELSE get_top_level_table(Parent(t))

RECURSIVE get_write_disposition(_)
get_write_disposition(t) ==
    IF RawWriteDisposition(t) # "absent" THEN RawWriteDisposition(t)
    ELSE IF Parent(t) = NoTable THEN "append"
    ELSE get_write_disposition(Parent(t))

RECURSIVE IsDescendant(_, _)
IsDescendant(t, top) ==
    \/ t = top
    \/ Parent(t) # NoTable /\ IsDescendant(Parent(t), top)

\* parent-first list of the tables below (and including) top
get_child_tables(top) == SelectSeq(SchemaTables, LAMBDA t : IsDescendant(t, top))

\* ------------------------------------------------------------------ state
VARIABLES
    workers,              \* config.workers
    raise_on_failed_jobs, \* config.raise_on_failed_jobs
    job_table,            \* file id -> table name of the file name
    followup_files,       \* files written by add_new_job
    retry_count,          \* file id -> retry count of the file name
    new_jobs, started_jobs, failed_jobs, completed_jobs,  \* the four folders
    exceptions,           \* file id -> text of the .exception sidecar
    schema_update,        \* TRUE while schema_update.json is staged
    archived,             \* "no" | "completed" | "aborted"
    complete_load_calls,  \* destination complete_load(load_id) calls
    sync_calls,           \* destination calls made by the schema sync
    load_counter,         \* loader_load_package_counter
    job_counter,          \* loader_jobs_counter per state
    pc,                   \* position of the executor
    jobs,                 \* the polled list of job handles
    ii,                   \* index of complete_jobs' loop
    remaining_jobs,       \* complete_jobs' remaining_jobs
    jobs_count,           \* load_single_package's jobs_count
    batch,                \* files handed to the pool by spool_new_jobs
    spool_result,         \* file -> result of its w_spool_job
    outcome,              \* how the last invocation of run ended
    error,                \* the error the last invocation raised
    merge_emitted,        \* top-level table -> merge followups emitted
    restored,             \* files given to restore_file_load this invocation
    spooled,              \* files given to w_spool_job this invocation
    crashes,              \* executor crashes so far
    other_packages,       \* load ids of the other packages listed in storage
    load_id               \* run's load_id: the package picked by the invocation

storage_vars == <<job_table, followup_files, retry_count, new_jobs, started_jobs, failed_jobs,
                  completed_jobs, exceptions, schema_update, archived>>

observer_vars == <<complete_load_calls, sync_calls, load_counter, job_counter>>

config_vars == <<workers, raise_on_failed_jobs>>

package_vars == <<other_packages, load_id>>

runtime_vars == <<pc, jobs, ii, remaining_jobs, jobs_count, batch, spool_result>>

history_vars == <<outcome, error, merge_emitted, restored, spooled, crashes>>

vars == <<config_vars, package_vars, storage_vars, observer_vars, runtime_vars,
          history_vars>>

AllFiles == DOMAIN job_table

TopTables == {t \in TableNames : Parent(t) = NoTable}

\* sequences of k distinct elements of S: the possible listings of a folder
Listings(S, k) ==
    {s \in [1..k -> S] : \A i, j \in 1..k : i # j => s[i] # s[j]}

MinUnsliced(a, b) == b

Min(a, b) == IF a < b THEN a ELSE b

SeqToSet(s) == {s[i] : i \in 1..Len(s)}

TableIndex(t) == CHOOSE i \in 1..Len(FileTables) : FileTables[i] = t

\* ------------------------------------------------------------------ Init
\* A freshly written package: n job files in new_jobs, the schema update
\* staged, nothing started.  Files are interchangeable, so their tables are
\* drawn in non-decreasing order.
InitPackage ==
    /\ workers \in 1..MaxWorkers
    /\ raise_on_failed_jobs \in BOOLEAN
    /\ \E n \in 0..MaxFiles :
         /\ job_table \in {f \in [1..n -> SeqToSet(FileTables)] :
                             \A i, j \in 1..n :
                                 i < j => TableIndex(f[i]) <= TableIndex(f[j])}
         /\ retry_count = [f \in 1..n |-> 0]
         /\ new_jobs = 1..n
    /\ followup_files = {}
    /\ started_jobs = {}
    /\ failed_jobs = {}
    /\ completed_jobs = {}
    /\ exceptions = <<>>
    /\ schema_update = TRUE
    /\ archived = "no"
    /\ complete_load_calls = 0
    /\ sync_calls = <<>>
    /\ load_counter = 0
    /\ job_counter = [failed |-> 0, completed |-> 0]
    /\ pc = "idle"
    /\ jobs = <<>>
    /\ ii = 1
    /\ remaining_jobs = <<>>
    /\ jobs_count = 0
    /\ batch = <<>>
    /\ spool_result = <<>>
    /\ outcome = "none"
    /\ error = "none"
    /\ merge_emitted = [t \in TopTables |-> 0]
    /\ restored = {}
    /\ spooled = {}
    /\ crashes = 0
    /\ load_id = NoLoad

\* the storage holds this package only
Init == InitPackage /\ other_packages = {}

\* the storage holds other packages too, before or after this one
InitPackages == InitPackage /\ other_packages \in SUBSET OtherLoadIds

\* ------------------------------------------------------------ LoadStorage
\* Each transition is one rename: the file leaves one folder and enters
\* another in the same step.
start_job(f) ==
    /\ new_jobs' = new_jobs \ {f}
    /\ started_jobs' = started_jobs \cup {f}

fail_job(f, message) ==
    /\ started_jobs' = started_jobs \ {f}
    /\ failed_jobs' = failed_jobs \cup {f}
    /\ exceptions' = (f :> message) @@ exceptions

retry_job(f) ==
    /\ started_jobs' = started_jobs \ {f}
    /\ new_jobs' = new_jobs \cup {f}
    /\ retry_count' = [retry_count EXCEPT ![f] = @ + 1]

complete_job(f) ==
    /\ started_jobs' = started_jobs \ {f}
    /\ completed_jobs' = completed_jobs \cup {f}

\* a synthesized job file with a fresh name, retry count 0
add_new_job(m, t, folder) ==
    /\ job_table' = (m :> t) @@ job_table
    /\ retry_count' = (m :> 0) @@ retry_count
    /\ followup_files' = followup_files \cup {m}
    /\ IF folder = "new_jobs"
       THEN new_jobs' = new_jobs \cup {m} /\ UNCHANGED started_jobs
       ELSE started_jobs' = started_jobs \cup {m} /\ UNCHANGED new_jobs

\* jobs of a table across the four folders
list_jobs_for_table(t) ==
    {f \in new_jobs \cup started_jobs \cup failed_jobs \cup completed_jobs :
        job_table[f] = t}

Terminal(f) == f \in failed_jobs \cup completed_jobs

\* ------------------------------------------------------------ job handles
\* A handle is [file, kind]: "live" is a job of the destination whose
\* state() is the destination's answer; the other kinds report one fixed
\* state (EmptyLoadJob "failed", a NewLoadJob's advertised state).
Handle(f, k) == [file |-> f, kind |-> k]

JobStates(job) ==
    CASE job.kind = "live" ->
           {"running", "failed", "completed"} \cup
           (IF retry_count[job.file] < MaxRetry THEN {"retry"} ELSE {})
      [] job.kind \in {"spool_failed", "restore_failed", "nlj_failed"} -> {"failed"}
      [] job.kind = "nlj_completed" -> {"completed"}

JobException(job) ==
    CASE job.kind = "spool_failed" -> "spool terminal exception"
      [] job.kind = "restore_failed" -> "restore terminal exception"
      [] job.kind = "live" -> "job exception"
      [] OTHER -> "followup exception"

\* isinstance(starting_job, FollowupJob): the destination's load jobs may
\* carry the capability; EmptyLoadJob, NewLoadJob and the jobs of
\* synthesized (sql) files do not.
FollowupCapability(job) ==
    IF job.kind = "live" /\ job.file \notin followup_files
    THEN BOOLEAN ELSE {FALSE}

Files(js) == {js[i].file : i \in 1..Len(js)}

\* ------------------------------------------------------------ get_load_table
KnownTable(f) == job_table[f] \in TableNames

LoadTableDisposition(f) == get_write_disposition(job_table[f])

\* ------------------------------------------------------------ end of run
EndInvocation(o, e) ==
    /\ pc' = "idle"
    /\ outcome' = o
    /\ error' = e
    /\ jobs' = <<>>
    /\ ii' = 1
    /\ remaining_jobs' = <<>>
    /\ batch' = <<>>
    /\ spool_result' = <<>>

\* ------------------------------------------------------------ run
\* LoadStorage.begin_schema_update: the staged update while the artifact
\* is there (I4), none once it was committed
begin_schema_update == schema_update

SchemaSyncNeededNever(expected_update) == FALSE

\* line 268: if expected_update is not None
SchemaSyncNeeded(expected_update) == expected_update

\* LoadStorage.list_packages: the unarchived packages, lexical ascending
list_packages ==
    LET listed == other_packages \cup (IF archived = "no" THEN {ThisLoadId} ELSE {})
    IN  CHOOSE s \in Listings(listed, Cardinality(listed)) :
            \A i, j \in 1..Len(s) : i < j => s[i] < s[j]

LastLoad(loads) == loads[Len(loads)]

\* line 334: load_id = loads[0]
TopLoad(loads) == loads[1]

Run ==
    /\ pc = "idle"
    /\ Len(list_packages) # 0
    /\ load_id' = TopLoad(list_packages)
    /\ load_id' = ThisLoadId
    /\ pc' = IF SchemaSyncNeeded(begin_schema_update) THEN "sync" ELSE "retrieve"
    /\ outcome' = "running"
    /\ error' = "none"
    /\ jobs_count' = 0
    /\ restored' = {}
    /\ spooled' = {}
    /\ UNCHANGED <<config_vars, other_packages, storage_vars, observer_vars, jobs, ii,
                   remaining_jobs, batch, spool_result, merge_emitted, crashes>>

\* list_packages() is empty: report idle
RunIdle ==
    /\ pc = "idle"
    /\ Len(list_packages) = 0
    /\ load_id' = NoLoad
    /\ outcome' = "idle"
    /\ error' = "none"
    /\ UNCHANGED <<config_vars, other_packages, storage_vars, observer_vars,
                   runtime_vars, merge_emitted, restored, spooled, crashes>>

\* the package picked is another one: load_single_package works on its
\* folders only
RunOtherPackage ==
    /\ pc = "idle"
    /\ Len(list_packages) # 0
    /\ load_id' = TopLoad(list_packages)
    /\ load_id' # ThisLoadId
    /\ pc' = "other"
    /\ outcome' = "running"
    /\ error' = "none"
    /\ UNCHANGED <<config_vars, other_packages, storage_vars, observer_vars, jobs, ii,
                   remaining_jobs, jobs_count, batch, spool_result, merge_emitted,
                   restored, spooled, crashes>>

\* load_single_package of another package ends: that package was archived,
\* or it is left for a later run
OtherPackageEnds ==
    /\ pc = "other"
    /\ \E was_archived \in BOOLEAN :
         other_packages' = IF was_archived
                           THEN other_packages \ {load_id} ELSE other_packages
    /\ EndInvocation("other", "none")
    /\ UNCHANGED <<config_vars, load_id, storage_vars, observer_vars, jobs_count,
                   merge_emitted, restored, spooled, crashes>>

\* ------------------------------------------------------------ schema sync
\* get_jobs_info(load_id, schema, disposition): with no disposition the
\* table of a file is never looked up; with one, get_load_table is called
\* for every file of new_jobs and raises for a table not in the schema.
get_jobs_info_raises(disposition) ==
    disposition # "" /\ \E f \in new_jobs : ~KnownTable(f)

get_jobs_info(disposition) ==
    {f \in new_jobs : disposition = "" \/ LoadTableDisposition(f) = disposition}

DefaultSyncCalls == <<"initialize_storage", "update_storage_schema">>

StagingSyncCalls ==
    <<"initialize_storage(staging)", "update_storage_schema(staging)",
      "initialize_storage(staging,truncate_tables)">>

StagingNeededAlways(merge_jobs) == TRUE

\* line 279: if merge_jobs
StagingNeeded(merge_jobs) == merge_jobs # {}

\* the destination calls of lines 270-286 when none of them fails
DestinationSyncCalls ==
    DefaultSyncCalls \o
    (IF StagingNeeded(get_jobs_info("merge")) THEN StagingSyncCalls ELSE <<>>)

\* begin_schema_update returned the staged update: lines 267-287 up to the
\* commit, or up to the LoadJobUnknownTableException of get_jobs_info.
SchemaSync ==
    /\ pc = "sync"
    /\ IF get_jobs_info_raises("merge")
       THEN /\ sync_calls' = DefaultSyncCalls
            /\ EndInvocation("raised", "UnknownTable")
            /\ UNCHANGED schema_update
       ELSE /\ sync_calls' = DestinationSyncCalls \o <<"commit_schema_update">>
            /\ schema_update' = FALSE
            /\ pc' = "retrieve"
            /\ UNCHANGED <<outcome, error, jobs, ii, remaining_jobs, batch, spool_result>>
    /\ UNCHANGED <<config_vars, package_vars, job_table, followup_files, retry_count, new_jobs,
                   started_jobs, failed_jobs, completed_jobs, exceptions, archived,
                   complete_load_calls, load_counter, job_counter, jobs_count,
                   merge_emitted, restored, spooled, crashes>>

\* the (k+1)-th destination call of the sync raises after k calls have
\* returned: nothing is committed
SchemaSyncFails ==
    /\ pc = "sync"
    /\ LET calls == IF get_jobs_info_raises("merge")
                    THEN DefaultSyncCalls ELSE DestinationSyncCalls
       IN \E k \in 0..(Len(calls) - 1) : sync_calls' = SubSeq(calls, 1, k)
    /\ EndInvocation("raised", "Transient")
    /\ UNCHANGED <<config_vars, package_vars, storage_vars, complete_load_calls, load_counter,
                   job_counter, jobs_count, merge_emitted, restored, spooled,
                   crashes>>

\* ------------------------------------------------------------ retrieve_jobs
NoJobsAlways(count, js) == TRUE

\* line 303: with no existing and no new job the package is completed
NoJobs(count, js) == count = 0

ShouldSpoolAlways(js) == TRUE

\* line 290: spool only when retrieval returned no jobs
ShouldSpool(js) == Len(js) = 0

\* every file of started_jobs is restored, in listing order; a terminal
\* error yields an EmptyLoadJob "failed"
RetrieveJobs ==
    /\ pc = "retrieve"
    /\ \E listing \in Listings(started_jobs, Cardinality(started_jobs)) :
       \E res \in [started_jobs -> {"restored", "terminal"}] :
         /\ jobs' = [i \in 1..Len(listing) |->
                        Handle(listing[i],
                               IF res[listing[i]] = "restored"
                               THEN "live" ELSE "restore_failed")]
         /\ jobs_count' = Len(listing)
         /\ restored' = started_jobs
         /\ pc' = IF ShouldSpool(jobs') THEN "spool"
                  ELSE IF NoJobs(jobs_count', jobs') THEN "complete_load"
                  ELSE "poll"
    /\ ii' = 1
    /\ remaining_jobs' = <<>>
    /\ UNCHANGED <<config_vars, package_vars, storage_vars, observer_vars, batch, spool_result,
                   outcome, error, merge_emitted, spooled, crashes>>

RestoreErrors == {"Transient", "Terminal"}

ReraisesAlways(e) == TRUE

\* lines 141-148: a DestinationTerminalException is caught and replaced by
\* an EmptyLoadJob; every other exception is raised again
Reraises(e) == e # "Terminal"

\* restore_file_load raises an error that is raised again at the k-th file
\* of the listing: the error propagates out of run
RetrieveJobsFails ==
    /\ pc = "retrieve"
    /\ started_jobs # {}
    /\ \E listing \in Listings(started_jobs, Cardinality(started_jobs)) :
       \E k \in 1..Len(listing) :
         restored' = {listing[i] : i \in 1..k}
    /\ \E e \in RestoreErrors :
         /\ Reraises(e)
         /\ EndInvocation("raised", e)
    /\ UNCHANGED <<config_vars, package_vars, storage_vars, observer_vars, jobs_count,
                   merge_emitted, spooled, crashes>>

\* ------------------------------------------------------------ spool_new_jobs
\* load_files = list_new_jobs(load_id)[:workers]
SpoolNewJobs ==
    /\ pc = "spool"
    /\ LET file_count == Min(workers, Cardinality(new_jobs)) IN
       /\ jobs_count' = file_count
       /\ IF file_count = 0
          THEN /\ batch' = <<>>
               /\ spool_result' = <<>>
               /\ spooled' = spooled
               /\ jobs' = <<>>
               /\ pc' = IF NoJobs(file_count, <<>>) THEN "complete_load" ELSE "poll"
          ELSE /\ batch' \in Listings(new_jobs, file_count)
               /\ spool_result' = [f \in SeqToSet(batch') |-> "pending"]
               /\ spooled' = SeqToSet(batch')
               /\ jobs' = <<>>
               /\ pc' = "spooling"
    /\ UNCHANGED <<config_vars, package_vars, storage_vars, observer_vars, ii, remaining_jobs,
                   outcome, error, merge_emitted, restored, crashes>>

SupportedDispositions == {"append", "replace", "merge"}

\* what w_spool_job's try block ends with for file f, given whether the
\* file format is supported and what start_file_load does
w_spool_try(f, format_supported, start_file_load) ==
    IF ~format_supported THEN "terminal"
    ELSE IF ~KnownTable(f) THEN "terminal"
    ELSE IF LoadTableDisposition(f) \notin SupportedDispositions THEN "terminal"
    ELSE start_file_load

MovesFileAlways(r) == TRUE

\* lines 103-107: a transient failure returns before start_job
MovesFile(r) == r # "transient"

\* what start_file_load can do: return a job, or raise a terminal or a
\* transient exception
StartFileLoadAnswers == {"job", "terminal", "transient"}

\* one pool worker runs w_spool_job for one file of the batch, the
\* destination answering with one of answers
w_spool_job_answered(f, answers) ==
    /\ pc = "spooling"
    /\ f \in DOMAIN spool_result
    /\ spool_result[f] = "pending"
    /\ \E format_supported \in BOOLEAN :
       \E start_file_load \in answers :
         LET r == w_spool_try(f, format_supported, start_file_load) IN
         /\ spool_result' = [spool_result EXCEPT ![f] =
                                CASE r = "transient" -> "none"
                                  [] r = "job" -> "live"
                                  [] OTHER -> "spool_failed"]
         /\ IF MovesFile(r)
            THEN start_job(f)
            ELSE UNCHANGED <<new_jobs, started_jobs>>
    /\ UNCHANGED <<config_vars, package_vars, job_table, followup_files, retry_count, failed_jobs,
                   completed_jobs, exceptions, schema_update, archived,
                   observer_vars, pc, jobs, ii, remaining_jobs, jobs_count, batch,
                   history_vars>>

w_spool_job(f) == w_spool_job_answered(f, StartFileLoadAnswers)

SpoolWorker == \E f \in AllFiles : w_spool_job(f)

\* a pool worker when no destination call fails transiently
SpoolWorkerNoTransient ==
    \E f \in AllFiles : w_spool_job_answered(f, StartFileLoadAnswers \ {"transient"})

\* starmap returned: the None results are dropped, the order is kept
SpooledJobs ==
    LET kept == SelectSeq(batch, LAMBDA f : spool_result[f] # "none") IN
    [i \in 1..Len(kept) |-> Handle(kept[i], spool_result[kept[i]])]

SpoolJoin ==
    /\ pc = "spooling"
    /\ \A f \in DOMAIN spool_result : spool_result[f] # "pending"
    /\ jobs' = SpooledJobs
    /\ ii' = 1
    /\ remaining_jobs' = <<>>
    /\ batch' = <<>>
    /\ spool_result' = <<>>
    /\ pc' = IF NoJobs(jobs_count, jobs') THEN "complete_load" ELSE "poll"
    /\ UNCHANGED <<config_vars, package_vars, storage_vars, observer_vars, jobs_count, history_vars>>

\* ------------------------------------------------------------ followup jobs
ChainNotReadyStartedOnly(top, starting) ==
    \E i \in 1..Len(get_child_tables(top)) :
       \E f \in list_jobs_for_table(get_child_tables(top)[i]) :
          f \in started_jobs /\ f # starting

ChainAlwaysReady(top, starting) == FALSE

\* create_merge_job's gate: some job of the chain is neither failed nor
\* completed and is not the starting job
ChainNotReady(top, starting) ==
    \E i \in 1..Len(get_child_tables(top)) :
       \E f \in list_jobs_for_table(get_child_tables(top)[i]) :
          ~Terminal(f) /\ f # starting

TableChainOfTerminalJobs(top) ==
    SelectSeq(get_child_tables(top),
              LAMBDA t : list_jobs_for_table(t) \cap (failed_jobs \cup completed_jobs) # {})

\* the tables of the chain that have jobs, parent first
TableChain(top) ==
    SelectSeq(get_child_tables(top), LAMBDA t : list_jobs_for_table(t) # {})

\* create_followup_jobs for a job reporting state: "none", "merge",
\* or the error raised on the way
create_followup_jobs(job, state, capable) ==
    IF ~(capable /\ state = "completed") THEN "none"
    ELSE IF ~KnownTable(job.file) THEN "UnknownTable"
    ELSE LET top == get_top_level_table(job_table[job.file]) IN
         IF get_write_disposition(top) # "merge" THEN "none"
         ELSE IF ChainNotReady(top, job.file) THEN "none"
         ELSE IF Len(TableChain(top)) = 0 THEN "AssertionError"
         ELSE "merge"

\* the name the destination gives the next synthesized file
NewFile == Cardinality(AllFiles) + 1

\* a NewLoadJob advertises running or a terminal state
AdvertisedStates == {"running", "completed", "failed"}

\* line 226: running followups go to new_jobs, the others to started_jobs
FollowupFolder(advertised) ==
    IF advertised = "running" THEN "new_jobs" ELSE "started_jobs"

JoinsPollNever(advertised) == FALSE

\* line 230: a followup that is not running is put in the current queue
JoinsPoll(advertised) == advertised # "running"

\* ------------------------------------------------------------ complete_jobs
Polling == pc = "poll" /\ ii <= Len(jobs)

NextJob ==
    /\ ii' = ii + 1
    /\ UNCHANGED <<pc, jobs, jobs_count, batch, spool_result>>

StaysInPollWhenRetried(state) == state \in {"running", "retry"}

\* lines 202-205: only a running job is asked again
StaysInPoll(state) == state = "running"

PollRunning ==
    /\ Polling
    /\ "running" \in JobStates(jobs[ii])
    /\ remaining_jobs' = IF StaysInPoll("running")
                         THEN Append(remaining_jobs, jobs[ii]) ELSE remaining_jobs
    /\ NextJob
    /\ UNCHANGED <<config_vars, package_vars, storage_vars, observer_vars, history_vars>>

RaisesOnFailedAlways == TRUE

\* line 210: the failed job is package-fatal
RaisesOnFailed == raise_on_failed_jobs

PollFailed ==
    /\ Polling
    /\ "failed" \in JobStates(jobs[ii])
    /\ fail_job(jobs[ii].file, JobException(jobs[ii]))
    /\ IF RaisesOnFailed
       THEN \* LoadClientJobFailed leaves complete_jobs before the counters
            /\ pc' = "abort"
            /\ UNCHANGED <<job_counter, ii, jobs, jobs_count, batch, spool_result>>
       ELSE /\ job_counter' = [job_counter EXCEPT !.failed = @ + 1]
            /\ NextJob
    /\ UNCHANGED <<config_vars, package_vars, job_table, followup_files, retry_count, new_jobs,
                   completed_jobs, schema_update, archived, complete_load_calls,
                   sync_calls, load_counter, remaining_jobs, history_vars>>

PollRetry ==
    /\ Polling
    /\ "retry" \in JobStates(jobs[ii])
    /\ retry_job(jobs[ii].file)
    /\ remaining_jobs' = IF StaysInPoll("retry")
                         THEN Append(remaining_jobs, jobs[ii]) ELSE remaining_jobs
    /\ NextJob
    /\ UNCHANGED <<config_vars, package_vars, job_table, followup_files, failed_jobs,
                   completed_jobs, exceptions, schema_update, archived,
                   observer_vars, history_vars>>

\* a completed job: the followups are created and saved first (lines
\* 222-231); a job with no followup is moved to completed_jobs at once
PollCompleted ==
    /\ Polling
    /\ "completed" \in JobStates(jobs[ii])
    /\ \E capable \in FollowupCapability(jobs[ii]) :
       LET job == jobs[ii]
           followup == create_followup_jobs(job, "completed", capable)
           top == get_top_level_table(job_table[job.file])
       IN
       CASE followup = "none" ->
              /\ complete_job(job.file)
              /\ job_counter' = [job_counter EXCEPT !.completed = @ + 1]
              /\ NextJob
              /\ UNCHANGED <<job_table, followup_files, retry_count, new_jobs,
                             remaining_jobs, outcome, error, merge_emitted>>
         [] followup = "merge" ->
              /\ Cardinality(followup_files) < MaxMerge
              /\ \E advertised \in AdvertisedStates :
                   /\ add_new_job(NewFile, TableChain(top)[1],
                                  FollowupFolder(advertised))
                   /\ remaining_jobs' =
                        IF JoinsPoll(advertised)
                        THEN Append(remaining_jobs,
                                    Handle(NewFile, "nlj_" \o advertised))
                        ELSE remaining_jobs
              /\ merge_emitted' = [merge_emitted EXCEPT ![top] = @ + 1]
              /\ pc' = "followup_added"
              /\ UNCHANGED <<completed_jobs, job_counter, ii, jobs, jobs_count,
                             batch, spool_result, outcome, error>>
         [] OTHER ->
              /\ EndInvocation("raised", followup)
              /\ UNCHANGED <<job_table, followup_files, retry_count, new_jobs,
                             started_jobs, completed_jobs, job_counter,
                             jobs_count, merge_emitted>>
    /\ UNCHANGED <<config_vars, package_vars, failed_jobs, exceptions, schema_update, archived,
                   complete_load_calls, sync_calls, load_counter, restored,
                   spooled, crashes>>

\* line 234: the originating job is moved after its followups were saved
CompleteAfterFollowup ==
    /\ pc = "followup_added"
    /\ complete_job(jobs[ii].file)
    /\ job_counter' = [job_counter EXCEPT !.completed = @ + 1]
    /\ pc' = "poll"
    /\ ii' = ii + 1
    /\ UNCHANGED <<config_vars, package_vars, job_table, followup_files, retry_count, new_jobs,
                   failed_jobs, exceptions, schema_update, archived,
                   complete_load_calls, sync_calls, load_counter, jobs,
                   remaining_jobs, jobs_count, batch, spool_result, history_vars>>

LoopExitAlways(remaining) == TRUE

\* line 310: the poll loop ends when a pass leaves no job
LoopExit(remaining) == Len(remaining) = 0

\* complete_jobs returned: leave the loop, or sleep and poll the rest
PassEnd ==
    /\ pc = "poll"
    /\ ii > Len(jobs)
    /\ IF LoopExit(remaining_jobs)
       THEN EndInvocation("returned", "none")
       ELSE /\ jobs' = remaining_jobs
            /\ remaining_jobs' = <<>>
            /\ ii' = 1
            /\ UNCHANGED <<pc, batch, spool_result, outcome, error>>
    /\ UNCHANGED <<config_vars, package_vars, storage_vars, observer_vars, jobs_count,
                   merge_emitted, restored, spooled, crashes>>

\* ------------------------------------------------------------ complete_package
CommitsLoadAlways(aborted) == TRUE

\* line 247: the load id is committed at the destination unless aborted
CommitsLoad(aborted) == ~aborted

\* spec 4.1: archive the package directory; refused for a package that
\* still has new or started jobs unless aborted
complete_load_package(aborted) ==
    IF ~aborted /\ new_jobs \cup started_jobs # {}
    THEN /\ UNCHANGED <<archived, load_counter>>
         /\ EndInvocation("raised", "NotArchivable")
    ELSE /\ archived' = IF aborted THEN "aborted" ELSE "completed"
         /\ load_counter' = load_counter + 1
         /\ IF aborted
            THEN EndInvocation("raised", "JobFailed")
            ELSE EndInvocation("returned", "none")

\* complete_package(load_id, schema, False), first half: complete_load
CompleteLoad ==
    /\ pc = "complete_load"
    /\ complete_load_calls' =
         IF CommitsLoad(FALSE) THEN complete_load_calls + 1 ELSE complete_load_calls
    /\ pc' = "archive"
    /\ UNCHANGED <<config_vars, package_vars, storage_vars, sync_calls, load_counter, job_counter,
                   jobs, ii, remaining_jobs, jobs_count, batch, spool_result,
                   history_vars>>

\* complete_package(load_id, schema, False), second half
ArchivePackage ==
    /\ pc = "archive"
    /\ complete_load_package(FALSE)
    /\ UNCHANGED <<config_vars, package_vars, job_table, followup_files, retry_count, new_jobs,
                   started_jobs, failed_jobs, completed_jobs, exceptions,
                   schema_update, complete_load_calls, sync_calls, job_counter,
                   jobs_count, merge_emitted, restored, spooled, crashes>>

\* lines 316-319: LoadClientJobFailed was caught; the package is completed
\* as aborted and the error is raised again
AbortPackage ==
    /\ pc = "abort"
    /\ complete_load_calls' =
         IF CommitsLoad(TRUE) THEN complete_load_calls + 1 ELSE complete_load_calls
    /\ complete_load_package(TRUE)
    /\ UNCHANGED <<config_vars, package_vars, job_table, followup_files, retry_count, new_jobs,
                   started_jobs, failed_jobs, completed_jobs, exceptions,
                   schema_update, sync_calls, job_counter, jobs_count,
                   merge_emitted, restored, spooled, crashes>>

\* ------------------------------------------------------------ crash
\* the executor process dies (or is interrupted) between two steps; the
\* folders are on disk, everything else is lost
Crash ==
    /\ pc # "idle"
    /\ crashes < MaxCrashes
    /\ crashes' = crashes + 1
    /\ EndInvocation("crashed", "none")
    /\ UNCHANGED <<config_vars, package_vars, storage_vars, observer_vars, jobs_count,
                   merge_emitted, restored, spooled>>

\* ------------------------------------------------------------ specifications
Next ==
    \/ Run
    \/ RunIdle
    \/ SchemaSync
    \/ SchemaSyncFails
    \/ RetrieveJobs
    \/ SpoolNewJobs
    \/ SpoolWorker
    \/ SpoolJoin
    \/ PollRunning
    \/ PollFailed
    \/ PollRetry
    \/ PollCompleted
    \/ CompleteAfterFollowup
    \/ PassEnd
    \/ CompleteLoad
    \/ ArchivePackage
    \/ AbortPackage

Spec == Init /\ [][Next]_vars

\* With crashes (or interrupts) of the executor an invocation can find
\* started jobs, so the resume path of retrieve_jobs does work.
NextCrash == Next \/ RetrieveJobsFails \/ Crash

SpecCrash == Init /\ [][NextCrash]_vars

\* Repeated invocations of run when raise_on_failed_jobs is off and no
\* destination call fails transiently.  The executor keeps taking steps
\* (run is invoked again and again, a started invocation goes on), and a
\* job that is polled again and again eventually reports completed or
\* failed.
InitLive == Init /\ ~raise_on_failed_jobs

NextLive ==
    \/ Run
    \/ RunIdle
    \/ SchemaSync
    \/ RetrieveJobs
    \/ SpoolNewJobs
    \/ SpoolWorkerNoTransient
    \/ SpoolJoin
    \/ PollRunning
    \/ PollFailed
    \/ PollRetry
    \/ PollCompleted
    \/ CompleteAfterFollowup
    \/ PassEnd
    \/ CompleteLoad
    \/ ArchivePackage

SpecLive ==
    /\ InitLive
    /\ [][NextLive]_vars
    /\ WF_vars(NextLive)
    /\ SF_vars(PollFailed \/ PollCompleted)

\* The cold happy path: no invocation is cut short, start_file_load
\* returns a job for every file and every job reports completed the
\* first time it is asked.
SpoolWorkerStarted ==
    \E f \in AllFiles : w_spool_job_answered(f, {"job"})

NextHappy ==
    \/ Run
    \/ RunIdle
    \/ SchemaSync
    \/ RetrieveJobs
    \/ SpoolNewJobs
    \/ SpoolWorkerStarted
    \/ SpoolJoin
    \/ PollCompleted
    \/ CompleteAfterFollowup
    \/ PassEnd
    \/ CompleteLoad
    \/ ArchivePackage

SpecHappy == Init /\ [][NextHappy]_vars

\* With other packages in the storage run picks among them.
NextPackages == Next \/ RunOtherPackage \/ OtherPackageEnds

SpecPackages == InitPackages /\ [][NextPackages]_vars

TypeOK ==
    /\ new_jobs \cup started_jobs \cup failed_jobs \cup completed_jobs \subseteq AllFiles
    /\ pc \in {"idle", "sync", "retrieve", "spool", "spooling", "poll",
               "followup_added", "abort", "complete_load", "archive", "other"}
    /\ archived \in {"no", "completed", "aborted"}

\* ------------------------------------------------------------ properties
ChainFiles(top) ==
    {f \in AllFiles : KnownTable(f) /\ get_top_level_table(job_table[f]) = top}

C2_ExactlyOneFolder ==
    \A f \in AllFiles :
        Cardinality({d \in {"new", "started", "failed", "completed"} :
            \/ d = "new" /\ f \in new_jobs
            \/ d = "started" /\ f \in started_jobs
            \/ d = "failed" /\ f \in failed_jobs
            \/ d = "completed" /\ f \in completed_jobs}) = 1

C2_Witness ==
    /\ followup_files \cap started_jobs # {}
    /\ failed_jobs # {}
    /\ \E f \in new_jobs : retry_count[f] > 0

\* C3: within one package, over any sequence of run invocations (an
\* invocation cut short by a crash of the executor included), a merge
\* followup is emitted at most once per top-level merge table.
C3_MergeAtMostOnce ==
    \A t \in TopTables :
        /\ merge_emitted[t] <= 1
        /\ Cardinality(followup_files \cap ChainFiles(t)) = merge_emitted[t]

\* C4: at the moment a merge followup is emitted while completing job J,
\* every other job file of the chain is in completed_jobs or failed_jobs.
\* (pc = "followup_added" is the state right after add_new_job: the file
\* just added is the newest one.)
C4_ChainDrainedAtEmission ==
    pc = "followup_added" =>
        LET J == jobs[ii].file
            M == Cardinality(AllFiles)
        IN  /\ J \in started_jobs
            /\ \A f \in ChainFiles(get_top_level_table(job_table[J])) \ {J, M} :
                   Terminal(f)

C4_Witness ==
    /\ pc = "followup_added"
    /\ \E f \in failed_jobs : job_table[f] = "orders__items"

\* C5: a crash between two LoadStorage transitions, followed by restarts
\* until the package is archived, ends with the job files a crash-free
\* execution ends with; a crash-free execution ends with at most one merge
\* followup file per top-level merge table (C3).
C5_CrashSameFinalState ==
    archived # "no" =>
        \A t \in TopTables :
            Cardinality(followup_files \cap ChainFiles(t)
                            \cap (completed_jobs \cup failed_jobs)) <= 1

\* C6: a polled job reporting failed under raise_on_failed_jobs is moved to
\* failed_jobs, the package is archived as aborted, complete_load is never
\* called for it and the JobFailed error reaches the caller.
C6_FailedJobAbortsPackage ==
    /\ (raise_on_failed_jobs /\ failed_jobs # {}) =>
          /\ Cardinality(failed_jobs) = 1
          /\ complete_load_calls = 0
          /\ pc \in {"abort", "idle"}
          /\ pc = "idle" =>
                /\ archived = "aborted"
                /\ outcome \in {"raised", "idle"}
                /\ outcome = "raised" => error = "JobFailed"
    /\ archived = "aborted" => raise_on_failed_jobs /\ failed_jobs # {}

C6_Witness ==
    /\ archived = "aborted"
    /\ outcome = "raised"
    /\ error = "JobFailed"
    /\ started_jobs # {}

\* C7: a job file whose table is not in the package schema is failed as a
\* single job: load_single_package never raises because of it.
C7_UnknownTableDoesNotRaise ==
    ~(outcome = "raised" /\ error = "UnknownTable")

\* C8: a polled job reporting failed with raise_on_failed_jobs off moves
\* from started_jobs to failed_jobs with its exception text recorded, is
\* dropped from the polled set, the pass goes on to the next job, and the
\* package is never archived as aborted.
C8_FailedJobIsDropped ==
    /\ [](~raise_on_failed_jobs => archived # "aborted" /\ pc # "abort")
    /\ [][(~raise_on_failed_jobs /\ Polling /\ failed_jobs' # failed_jobs) =>
            LET job == jobs[ii] IN
            /\ job.file \in started_jobs
            /\ failed_jobs' = failed_jobs \cup {job.file}
            /\ job.file \notin started_jobs' \cup new_jobs' \cup completed_jobs'
            /\ job.file \in DOMAIN exceptions'
            /\ exceptions'[job.file] = JobException(job)
            /\ job.file \notin Files(remaining_jobs')
            /\ pc' = "poll" /\ jobs' = jobs /\ ii' = ii + 1]_vars

C8_Witness ==
    /\ ~raise_on_failed_jobs
    /\ Polling
    /\ ii > 1
    /\ jobs[ii - 1].file \in failed_jobs
    /\ exceptions[jobs[ii - 1].file] = "job exception"

\* C9: in a spool batch a file is moved new_jobs -> started_jobs and yields
\* a job exactly when its own spool did not fail transiently; a file whose
\* spool failed transiently stays in new_jobs and yields no job; a worker
\* moves no file but its own.
C9_SpoolIsolation ==
    /\ [](pc = "spooling" =>
            \A f \in DOMAIN spool_result :
                /\ spool_result[f] \in {"pending", "none"} => f \in new_jobs
                /\ spool_result[f] \in {"live", "spool_failed"} => f \in started_jobs)
    /\ [][(pc = "spooling" /\ pc' = "spooling") =>
            \E f \in DOMAIN spool_result :
                /\ spool_result[f] = "pending"
                /\ \A g \in AllFiles \ {f} :
                      /\ (g \in new_jobs) = (g \in new_jobs')
                      /\ (g \in started_jobs) = (g \in started_jobs')
                      /\ g \in DOMAIN spool_result => spool_result'[g] = spool_result[g]]_vars
    /\ [][(pc = "spooling" /\ pc' \in {"poll", "complete_load"}) =>
            /\ Files(jobs') = {f \in DOMAIN spool_result : spool_result[f] # "none"}
            /\ Files(jobs') \subseteq started_jobs'
            /\ Len(jobs') = Cardinality(Files(jobs'))]_vars

C9_Witness ==
    /\ pc = "spooling"
    /\ \E f, g \in DOMAIN spool_result :
          /\ spool_result[f] = "none" /\ f \in new_jobs
          /\ spool_result[g] = "spool_failed" /\ g \in started_jobs

\* C10: an invocation that finds started jobs restores every one of them
\* and spools nothing; files are spooled only when retrieval returned no job.
C10_ResumeDoesNotSpool ==
    /\ [](restored # {} => spooled = {} /\ pc \notin {"spool", "spooling"})
    /\ [](spooled # {} => restored = {})
    /\ [][(pc = "retrieve" /\ started_jobs # {} /\ pc' # "idle") =>
            /\ pc' = "poll"
            /\ restored' = started_jobs
            /\ Files(jobs') = started_jobs
            /\ Len(jobs') = Cardinality(started_jobs)
            /\ UNCHANGED <<new_jobs, started_jobs>>]_vars

C10_Witness ==
    /\ pc = "poll"
    /\ Cardinality(restored) = 2
    /\ Files(jobs) = restored
    /\ new_jobs # {}
    /\ spooled = {}

\* C11: a restore_file_load error that is not terminal aborts the run with
\* that error: no job file changes folder in that invocation, nothing is
\* spooled and the package is not archived.  A terminal error never
\* aborts the run: it yields a handle for that file that reports failed,
\* and retrieval goes on to a handle for every started file.
C11_RestoreErrorHandling ==
    /\ [][(pc = "retrieve" /\ outcome' = "raised") =>
            /\ error' = "Transient"
            /\ UNCHANGED <<new_jobs, started_jobs, failed_jobs, completed_jobs,
                           retry_count, archived>>
            /\ archived = "no"
            /\ spooled' = {}]_vars
    /\ [][(pc \in {"idle", "sync"}) =>
            (UNCHANGED <<new_jobs, started_jobs, failed_jobs, completed_jobs>>)]_vars
    /\ [][(pc = "retrieve" /\ started_jobs # {} /\ pc' # "idle") =>
            /\ pc' = "poll"
            /\ Len(jobs') = Cardinality(started_jobs)
            /\ \A i \in 1..Len(jobs') :
                  /\ jobs'[i].kind \in {"live", "restore_failed"}
                  /\ jobs'[i].kind = "restore_failed" =>
                        JobStates(jobs'[i]) = {"failed"}]_vars

C11_Witness ==
    /\ outcome = "raised"
    /\ error = "Transient"
    /\ restored # {}
    /\ Cardinality(started_jobs) = 2
    /\ archived = "no"

\* C12: a polled job reporting retry is moved started_jobs -> new_jobs by
\* retry_job and dropped from the polled set; once polling has begun no
\* file is spooled in that invocation; a file keeps its table name and file
\* id for ever, the retry_job step makes its retry count strictly larger and
\* no step makes it smaller, so a later spool sees the same identity with a
\* strictly larger retry count.
C12_RetryGoesBackToNew ==
    /\ [][(Polling /\ new_jobs' \cap started_jobs # {}) =>
            LET job == jobs[ii] IN
            /\ job.file \in started_jobs
            /\ new_jobs' = new_jobs \cup {job.file}
            /\ started_jobs' = started_jobs \ {job.file}
            /\ job.file \notin Files(remaining_jobs')
            /\ retry_count'[job.file] > retry_count[job.file]
            /\ pc' = "poll" /\ jobs' = jobs /\ ii' = ii + 1]_vars
    /\ [][(pc \in {"poll", "followup_added"}) =>
            /\ spooled' = spooled
            /\ pc' \notin {"spool", "spooling"}
            /\ new_jobs \subseteq new_jobs']_vars
    /\ [][\A f \in AllFiles :
            /\ job_table'[f] = job_table[f]
            /\ retry_count'[f] >= retry_count[f]]_vars
    /\ [](\A i \in 1..Len(jobs) :
            pc = "poll" /\ i >= ii => jobs[i].file \in started_jobs)
    /\ [](\A i \in 1..Len(remaining_jobs) :
            pc = "poll" => remaining_jobs[i].file \in started_jobs)

C12_Witness ==
    /\ pc = "spooling"
    /\ \E f \in spooled :
          /\ retry_count[f] > 0
          /\ f \in started_jobs
          /\ spool_result[f] = "live"

\* C13: in one invocation of run at most `workers` files of new_jobs are
\* handed to w_spool_job, only those are moved to started_jobs, and every
\* other file of new_jobs stays in new_jobs for a later invocation.
C13_AtMostWorkersSpooled ==
    /\ [](Cardinality(spooled) <= workers)
    /\ [][(pc = "spool" /\ pc' # "idle") =>
            /\ spooled' \subseteq new_jobs
            /\ Cardinality(spooled') <= workers
            /\ Cardinality(new_jobs \ spooled') >= Cardinality(new_jobs) - workers
            /\ spooled' = {} => new_jobs = {}]_vars
    /\ [][(spooled' # spooled) => pc \in {"idle", "spool"}]_vars
    /\ [][(\E f \in new_jobs : f \in started_jobs') =>
            /\ pc = "spooling"
            /\ started_jobs' \ started_jobs \subseteq spooled]_vars
    /\ [][(pc = "spooling") => new_jobs \ spooled \subseteq new_jobs']_vars

C13_Witness ==
    /\ workers = 1
    /\ pc = "poll"
    /\ Cardinality(spooled) = 1
    /\ spooled \subseteq started_jobs
    /\ Cardinality(new_jobs \ spooled) = 1
    /\ \A f \in new_jobs : retry_count[f] = 0

\* C14: while the schema update of the package is not committed no file
\* is handed to start_file_load or restore_file_load and no job file
\* changes folder, in the first invocation and in every restart after a
\* failed sync; within an invocation no job is polled before every spool
\* worker has returned (or retrieve has), and only polling moves a file
\* out of started_jobs.
C14_SyncBeforeSpoolBeforePoll ==
    /\ [](schema_update =>
            /\ pc \in {"idle", "sync"}
            /\ new_jobs = AllFiles
            /\ started_jobs \cup failed_jobs \cup completed_jobs = {}
            /\ spooled = {} /\ restored = {})
    /\ [][schema_update =>
            (UNCHANGED <<new_jobs, started_jobs, failed_jobs, completed_jobs>>)]_vars
    /\ [][(pc' = "poll" /\ pc \notin {"poll", "followup_added"}) =>
            /\ pc \in {"retrieve", "spooling"}
            /\ pc = "spooling" =>
                  \A f \in DOMAIN spool_result : spool_result[f] # "pending"
            /\ pc = "retrieve" => restored' = started_jobs]_vars
    /\ [](pc \in {"poll", "followup_added", "abort"} =>
            /\ ~schema_update
            /\ batch = <<>> /\ spool_result = <<>>)
    /\ [][(started_jobs \ started_jobs' # {}) =>
            pc \in {"poll", "followup_added"}]_vars

C14_Witness ==
    /\ pc = "sync"
    /\ schema_update
    /\ Len(sync_calls) >= 3
    /\ sync_calls[Len(sync_calls)] # "commit_schema_update"
    /\ Cardinality(new_jobs) = 2

\* C15: the step that commits the schema update has made, in this order,
\* initialize_storage and update_storage_schema on the default dataset,
\* then, exactly when a file of new_jobs resolves to write disposition
\* merge, the three staging calls, and commit_schema_update last; with no
\* merge file it made no staging call.  commit_schema_update is never
\* recorded before the artifact is cleared, and once it is cleared no
\* later step makes any of these calls.
C15_SyncCallOrder ==
    /\ [][(schema_update /\ ~schema_update') =>
            LET c == sync_calls'
                merge == \E f \in new_jobs :
                            get_write_disposition(job_table[f]) = "merge"
            IN  /\ Len(c) = IF merge THEN 6 ELSE 3
                /\ c[1] = "initialize_storage"
                /\ c[2] = "update_storage_schema"
                /\ c[Len(c)] = "commit_schema_update"
                /\ merge =>
                      /\ c[3] = "initialize_storage(staging)"
                      /\ c[4] = "update_storage_schema(staging)"
                      /\ c[5] = "initialize_storage(staging,truncate_tables)"]_vars
    /\ [](\A i \in 1..Len(sync_calls) :
            sync_calls[i] = "commit_schema_update" =>
                i = Len(sync_calls) /\ ~schema_update)
    /\ [](~schema_update =>
            /\ Len(sync_calls) >= 3
            /\ sync_calls[Len(sync_calls)] = "commit_schema_update")
    /\ [][~schema_update => sync_calls' = sync_calls /\ ~schema_update']_vars

C15_Witness ==
    /\ ~schema_update
    /\ Len(sync_calls) = 6
    /\ pc = "poll"
    /\ outcome = "running"
    /\ completed_jobs # {}
    /\ job_counter.completed > 0

\* C16: the step that archives the package with aborted = false, and
\* every step that calls the destination's complete_load, starts in a
\* state where new_jobs and started_jobs are both empty; the storage never
\* has to refuse the archive.
C16_ArchiveOnlyWhenDrained ==
    /\ [][(archived' = "completed" /\ archived # "completed") =>
            new_jobs \cup started_jobs = {}]_vars
    /\ [][(complete_load_calls' # complete_load_calls) =>
            /\ new_jobs \cup started_jobs = {}
            /\ complete_load_calls' = complete_load_calls + 1]_vars
    /\ [](pc \in {"complete_load", "archive"} => new_jobs \cup started_jobs = {})
    /\ [](archived = "completed" =>
            new_jobs \cup started_jobs = {} /\ complete_load_calls >= 1)
    /\ [](error # "NotArchivable")

C16_Witness ==
    /\ archived = "completed"
    /\ complete_load_calls = 1
    /\ completed_jobs # {}
    /\ failed_jobs # {}
    /\ outcome = "returned"

\* the load ids listed in storage: the packages not archived yet
ListedLoadIds ==
    other_packages \cup (IF archived = "no" THEN {ThisLoadId} ELSE {})

\* C17: an invocation of run picks one package, the smallest load id
\* listed; with no package listed it reports idle and changes nothing in
\* storage.  While a package with a smaller load id is listed, no job file
\* of this package changes folder, none is spooled or polled and the
\* package is not archived; the same holds for the other packages: the
\* one worked on, and the one archived, is the smallest listed.
C17_SmallestLoadIdFirst ==
    /\ [][(pc = "idle" /\ pc' # "idle") =>
            /\ load_id' \in ListedLoadIds
            /\ \A p \in ListedLoadIds : load_id' <= p]_vars
    /\ [][(pc = "idle" /\ ListedLoadIds = {}) =>
            /\ pc' = "idle" /\ outcome' = "idle"
            /\ UNCHANGED <<storage_vars, other_packages>>]_vars
    /\ [][(pc # "idle") => load_id' = load_id]_vars
    /\ [](pc \notin {"idle", "other"} =>
            load_id = ThisLoadId /\ \A p \in other_packages : p > ThisLoadId)
    /\ [][(storage_vars' # storage_vars \/ spooled' # {} \/ restored' # {}) =>
            \A p \in other_packages : p > ThisLoadId]_vars
    /\ [](pc = "other" =>
            load_id \in other_packages /\ \A p \in ListedLoadIds : load_id <= p)
    /\ [][(other_packages' # other_packages) =>
            /\ other_packages' = other_packages \ {load_id}
            /\ \A p \in ListedLoadIds : load_id <= p]_vars

C17_Witness ==
    /\ pc = "other"
    /\ load_id = 3
    /\ other_packages = {3}
    /\ archived = "completed"
    /\ completed_jobs # {}

\* C18: under either value of raise_on_failed_jobs every fail_job and
\* complete_job of complete_jobs comes with one increment of the job
\* counter of that state, so the counters equal the numbers of files in
\* failed_jobs and completed_jobs.
C18_CountersMatchFolders ==
    /\ job_counter.failed = Cardinality(failed_jobs)
    /\ job_counter.completed = Cardinality(completed_jobs)

\* C19 as stated: once a followup was placed in started_jobs the package
\* is not archived before the followup is in a terminal folder.
C19_FollowupTerminalBeforeArchive ==
    archived # "no" => followup_files \cap started_jobs = {}

\* C19 amended: the followup file is added while the originating job is
\* still in started_jobs; a followup placed in new_jobs is in no polled
\* list of the invocation (it is polled once a later invocation spooled
\* it); a followup placed in started_jobs is in the
\* polled set from its emission until it leaves started_jobs, so the poll
\* loop does not end normally, and the package is not archived with
\* aborted = false, while it is there.  (A failed job under
\* raise_on_failed_jobs ends the loop and archives the package as aborted
\* whatever is still started.)
C19_FollowupJoinsPoll ==
    /\ [](pc = "followup_added" =>
            LET M == Cardinality(AllFiles) IN
            /\ M \in followup_files
            /\ jobs[ii].file \in started_jobs
            /\ M \in new_jobs \cup started_jobs
            /\ M \in started_jobs <=> M \in Files(remaining_jobs))
    /\ [](pc \in {"poll", "followup_added"} =>
            /\ \A f \in (followup_files \cap new_jobs) \ (spooled \cup restored) :
                  f \notin Files(jobs) \cup Files(remaining_jobs)
            /\ \A f \in followup_files \cap started_jobs :
                  \/ f \in Files(remaining_jobs)
                  \/ \E i \in ii..Len(jobs) : jobs[i].file = f)
    /\ []((outcome = "returned" \/ archived = "completed") =>
            followup_files \cap started_jobs = {})
    /\ [][(followup_files \cap started_jobs # {} /\ pc # "idle" /\ pc' = "idle") =>
            outcome' = "raised" /\ archived' = "aborted"]_vars

C19_Witness ==
    /\ pc = "poll"
    /\ ii <= Len(jobs)
    /\ jobs[ii].kind = "nlj_completed"
    /\ jobs[ii].file \in followup_files \cap started_jobs
    /\ remaining_jobs = <<>>
    /\ Cardinality(completed_jobs) = 2

\* C20: with raise_on_failed_jobs off, no transient destination failure
\* and every started job eventually reporting completed or failed,
\* repeated invocations of run eventually archive the package with
\* aborted = false.
C20_EventuallyArchived == <>(archived = "completed")

\* C21: when the jobs of a package all complete the first time they are
\* asked, the invocation of run that spooled every file of the package
\* returns with all job files in completed_jobs, the package archived,
\* complete_load called exactly once and the package counter at one.
C21_ColdRunArchives ==
    (/\ outcome = "returned"
     /\ spooled # {}
     /\ spooled = AllFiles \ followup_files
     /\ completed_jobs = AllFiles) =>
        /\ archived = "completed"
        /\ complete_load_calls = 1
        /\ load_counter = 1

\* C22: the assertion of create_merge_job never fails: whenever a polled
\* job of a merge chain can complete and the chain gate lets it through,
\* the job's file is still in started_jobs and its own table is in the
\* table chain, which is therefore not empty.
C22_TableChainNotEmpty ==
    /\ error # "AssertionError"
    /\ (Polling /\ jobs[ii].kind = "live" /\ KnownTable(jobs[ii].file)) =>
          LET f == jobs[ii].file
              top == get_top_level_table(job_table[f])
          IN  (get_write_disposition(top) = "merge" /\ ~ChainNotReady(top, f)) =>
                 /\ f \in started_jobs
                 /\ \E i \in 1..Len(TableChain(top)) : TableChain(top)[i] = job_table[f]
                 /\ create_followup_jobs(jobs[ii], "completed", TRUE) = "merge"

C22_Witness ==
    /\ pc = "followup_added"
    /\ job_table[jobs[ii].file] = "orders__items"
    /\ TableChain("orders") = <<"orders__items">>
    /\ Cardinality(AllFiles) = 3

\* C23: a merge followup is added only in the step that handles a polled
\* job reporting completed, whose file is then moved to completed_jobs;
\* the step that fails a job adds none.  When the job that fails is the
\* last of its chain to reach a terminal folder, the chain has no merge
\* followup then, and once every job of a chain is terminal with no
\* followup, none is emitted later; a package archived with aborted =
\* false never has a followup file outside the terminal folders.
C23_NoMergeAfterFailedLast ==
    /\ [][(followup_files' # followup_files) =>
            /\ Polling
            /\ "completed" \in JobStates(jobs[ii])
            /\ jobs[ii].file \in started_jobs'
            /\ pc' = "followup_added"
            /\ failed_jobs' = failed_jobs]_vars
    /\ [][(pc = "followup_added") =>
            completed_jobs' = completed_jobs \cup {jobs[ii].file}]_vars
    /\ [][\A f \in failed_jobs' \ failed_jobs :
            (f \notin followup_files /\ KnownTable(f)) =>
              LET chain == ChainFiles(get_top_level_table(job_table[f])) IN
              (\A g \in chain \ followup_files : g \in failed_jobs' \cup completed_jobs')
                 => chain \cap followup_files' = {}]_vars
    /\ [][\A t \in TopTables :
            (/\ ChainFiles(t) # {}
             /\ ChainFiles(t) \cap followup_files = {}
             /\ ChainFiles(t) \subseteq failed_jobs \cup completed_jobs)
              => \A f \in followup_files' : get_top_level_table(job_table'[f]) # t]_vars
    /\ [](archived = "completed" =>
            followup_files \subseteq failed_jobs \cup completed_jobs)

C23_Witness ==
    /\ pc = "poll"
    /\ Len(jobs) = 2
    /\ ii = 3
    /\ remaining_jobs = <<>>
    /\ jobs[1].file \in completed_jobs
    /\ jobs[2].file \in failed_jobs
    /\ job_table[jobs[1].file] = "orders"
    /\ job_table[jobs[2].file] = "orders__items"
    /\ followup_files = {}

====
